---- MODULE Spec2Model ----
(***************************************************************************)
(* Model of the caption-to-transcript pipeline of scripts/fetch_transcripts *)
(* and scripts/fetch_youtube: caption download, the VTT cue scanner         *)
(* (parse_vtt_file_with_timestamps), the sanitizer (clean_vtt_text), the    *)
(* de-duplicator (deduplicate_segments) and the duration computation of     *)
(* fetch_transcript_with_timestamps; the processing loop of main with its   *)
(* counters, store_video_data as a transaction on the database, and the     *)
(* rate-limited request of fetch_youtube_videos.                            *)
(*                                                                         *)
(* Strings are sequences of lexemes.  A lexeme is a TLA+ string standing    *)
(* for one character (" ", "<", "c", ...) or for one indivisible run of     *)
(* characters ("WEBVTT", "-->", a timestamp "00:00:02.000").  Python's 0-   *)
(* based line index i is kept 1-based here: i = k means lines[k-1].         *)
(***************************************************************************)
EXTENDS Integers, Sequences, FiniteSets, TLC

(***************************************************************************)
(* Bounds of the model.                                                    *)
(***************************************************************************)
MaxLines == 4
MaxSegs == 3

(***************************************************************************)
(* Lexemes.                                                                *)
(***************************************************************************)
None == "None"

\* The characters \s matches and str.strip() strips.
Whitespace == {" ", "\t"}

\* Lexemes str.isdigit() accepts.
Digits == {"1", "2"}

\* Lexemes matching \d{2}:\d{2}:\d{2}\.\d{3}.
Timestamps == {"00:00:00.000", "00:00:02.000", "00:00:04.000", "01:02:03.500"}

\* str.split(':') of a timestamp followed by int(), int() and float(): the
\* hours, minutes, whole seconds and milliseconds the lexeme spells.
TimeParts(ts) ==
    CASE ts = "00:00:00.000" -> [hours |-> 0, minutes |-> 0, seconds |-> 0, millis |-> 0]
      [] ts = "00:00:02.000" -> [hours |-> 0, minutes |-> 0, seconds |-> 2, millis |-> 0]
      [] ts = "00:00:04.000" -> [hours |-> 0, minutes |-> 0, seconds |-> 4, millis |-> 0]
      [] ts = "00:00:10.000" -> [hours |-> 0, minutes |-> 0, seconds |-> 10, millis |-> 0]
      [] ts = "01:02:03.500" -> [hours |-> 1, minutes |-> 2, seconds |-> 3, millis |-> 500]

\* Python's < on two timestamp strings: code-point order, which on the
\* fixed-width zero-padded lexemes is the order of (hours, minutes, seconds,
\* milliseconds).
StrLess(a, b) ==
    LET p == TimeParts(a)
        q == TimeParts(b)
    IN  \/ p.hours < q.hours
        \/ p.hours = q.hours /\ p.minutes < q.minutes
        \/ p.hours = q.hours /\ p.minutes = q.minutes /\ p.seconds < q.seconds
        \/ /\ p.hours = q.hours /\ p.minutes = q.minutes /\ p.seconds = q.seconds
           /\ p.millis < q.millis

(***************************************************************************)
(* String helpers.                                                         *)
(***************************************************************************)
RECURSIVE LStrip(_)
LStrip(s) == IF s # <<>> /\ Head(s) \in Whitespace THEN LStrip(Tail(s)) ELSE s

RECURSIVE RStrip(_)
RStrip(s) ==
    IF s # <<>> /\ s[Len(s)] \in Whitespace
    THEN RStrip(SubSeq(s, 1, Len(s) - 1))
    ELSE s

\* str.strip()
Strip(s) == RStrip(LStrip(s))

\* re.sub(r'\s+', ' ', s) without the collapse: every whitespace kept as is.
CollapseKeepAll(s) == s

\* re.sub(r'\s+', ' ', s): every maximal run of whitespace becomes one space.
RECURSIVE CollapseWhitespace(_)
CollapseWhitespace(s) ==
    IF s = <<>> THEN <<>>
    ELSE IF Head(s) \in Whitespace
         THEN <<" ">> \o CollapseWhitespace(LStrip(s))
         ELSE <<Head(s)>> \o CollapseWhitespace(Tail(s))

\* re.sub(r'<\d{2}:\d{2}:\d{2}\.\d{3}>', '', s)
RECURSIVE RemoveTimingTags(_)
RemoveTimingTags(s) ==
    IF s = <<>> THEN <<>>
    ELSE IF Len(s) >= 3 /\ s[1] = "<" /\ s[2] \in Timestamps /\ s[3] = ">"
         THEN RemoveTimingTags(SubSeq(s, 4, Len(s)))
         ELSE <<Head(s)>> \o RemoveTimingTags(Tail(s))

\* re.sub(r'</?c>', '', s)
RECURSIVE RemoveCTags(_)
RemoveCTags(s) ==
    IF s = <<>> THEN <<>>
    ELSE IF Len(s) >= 3 /\ s[1] = "<" /\ s[2] = "c" /\ s[3] = ">"
         THEN RemoveCTags(SubSeq(s, 4, Len(s)))
         ELSE IF Len(s) >= 4 /\ s[1] = "<" /\ s[2] = "/" /\ s[3] = "c" /\ s[4] = ">"
              THEN RemoveCTags(SubSeq(s, 5, Len(s)))
              ELSE <<Head(s)>> \o RemoveCTags(Tail(s))

\* re.sub(r'align:start position:0%', '', s)
RemoveAlign(s) == SelectSeq(s, LAMBDA t : t # "align:start position:0%")

\* clean_vtt_text(text)
clean_vtt_text(text) ==
    Strip(CollapseWhitespace(RemoveAlign(RemoveCTags(RemoveTimingTags(text)))))

(***************************************************************************)
(* deduplicate_segments.                                                   *)
(***************************************************************************)
\* The segment is put before the segments with the same key: a sort that is
\* not stable.
RECURSIVE InsertBeforeEqual(_, _)
InsertBeforeEqual(seg, sorted) ==
    IF sorted = <<>> THEN <<seg>>
    ELSE IF ~StrLess(Head(sorted).start_time, seg.start_time)
         THEN <<seg>> \o sorted
         ELSE <<Head(sorted)>> \o InsertBeforeEqual(seg, Tail(sorted))

\* The segment is put behind every segment whose key is not greater: the
\* sort is stable.
RECURSIVE InsertByStart(_, _)
InsertByStart(seg, sorted) ==
    IF sorted = <<>> THEN <<seg>>
    ELSE IF StrLess(seg.start_time, Head(sorted).start_time)
         THEN <<seg>> \o sorted
         ELSE <<Head(sorted)>> \o InsertByStart(seg, Tail(sorted))

RECURSIVE SortFrom(_, _)
SortFrom(segments, sorted) ==
    IF segments = <<>> THEN sorted
    ELSE SortFrom(Tail(segments), InsertByStart(Head(segments), sorted))

\* The segments left in the order given.
Unsorted(segments) == segments

\* sorted(segments, key=lambda x: x["start_time"])
SortByStart(segments) == SortFrom(segments, <<>>)

\* The segment before the k-th of the sorted list, kept or not.
PreviousSorted(unique_segments, sorted_segments, k) == sorted_segments[k - 1]

\* last_segment = unique_segments[-1]
LastSegment(unique_segments, sorted_segments, k) ==
    unique_segments[Len(unique_segments)]

NeverSkip(segment, last_segment) == FALSE

\* segment["start_time"] == last_segment["start_time"]
SameStart(segment, last_segment) ==
    segment.start_time = last_segment.start_time

\* A comparison that also takes a text for the same when one of the two
\* starts with the other.
PrefixText(segment, last_segment) ==
    LET a == segment.text
        b == last_segment.text
    IN  \/ Len(a) <= Len(b) /\ SubSeq(b, 1, Len(a)) = a
        \/ Len(b) <= Len(a) /\ SubSeq(a, 1, Len(b)) = b

\* segment["text"] == last_segment["text"]
SameText(segment, last_segment) == segment.text = last_segment.text

\* for segment in sorted_segments[1:]: ... from the k-th segment on
RECURSIVE DedupLoop(_, _, _)
DedupLoop(sorted_segments, k, unique_segments) ==
    IF k > Len(sorted_segments) THEN unique_segments
    ELSE LET segment == sorted_segments[k]
             last_segment == LastSegment(unique_segments, sorted_segments, k)
         IN  IF SameStart(segment, last_segment)
             THEN DedupLoop(sorted_segments, k + 1, unique_segments)
             ELSE IF SameText(segment, last_segment)
                  THEN DedupLoop(sorted_segments, k + 1, unique_segments)
                  ELSE DedupLoop(sorted_segments, k + 1,
                                 Append(unique_segments, segment))

deduplicate_segments(segments) ==
    IF segments = <<>> THEN <<>>
    ELSE LET sorted_segments == SortByStart(segments)
         IN  DedupLoop(sorted_segments, 2, <<sorted_segments[1]>>)

(***************************************************************************)
(* State.                                                                  *)
(***************************************************************************)
VARIABLES
    script,               \* which ingestion script runs the fetch
    pc,                   \* position in fetch_transcript_with_timestamps
    attempts,             \* the yt-dlp runs so far: client and exit code
    exc,                  \* the exception raised inside the try block, or None
    lines,                \* f.readlines() of the subtitle file
    i,                    \* the scanner's line index
    current_start,
    current_end,
    current_text,
    timestamped_segments,
    plain_transcript,
    branch,               \* the return statement the fetch left through
    result,               \* the value fetch_transcript_with_timestamps returned
    dedup_arg,            \* deduplicate_segments called alone: its argument,
    dedup_once,           \*   its result,
    dedup_twice,          \*   the result of calling it on its result,
    dpc,                  \*   and how far the two calls got
    calls,                \* how many times the parser was called on the file
    earlier,              \* what the call before this one returned
    other,                \* the locals of a second call of the parser, on
                          \*   another file, running at the same time
    mpc,                  \* main(): where the processing loop stands
    videos_to_process,    \*   new_videos + updating_videos
    vi,                   \*   the loop index i, counted from 1
    metadata,             \*   what fetch_youtube_metadata returned
    transcript_data,      \*   what fetch_transcript_with_timestamps returned
    is_scraped,           \*   fetch_youtube.py's flag of the current video
    success,              \*   what store_video_data returned
    added_count, updated_count, scraped_count, error_count,
    committed,            \* the rows of the database file
    working,              \* the rows as the connection sees them
    db_before,            \* the rows of the file when store_video_data
                          \*   was entered
    spc,                  \* store_video_data: where the call stands
    pending,              \*   and the statements it has yet to execute
    apc,                  \* fetch_youtube_videos: where the call stands
    response,             \*   the latest response: its status_code and body
    requests,             \*   how many requests it has issued
    api_result            \*   and what it returned

fetchVars == <<script, pc, attempts, exc, branch, result>>
parseVars == <<lines, i, current_start, current_end, current_text,
               timestamped_segments, plain_transcript>>
dedupVars == <<dedup_arg, dedup_once, dedup_twice, dpc>>
callVars == <<calls, earlier, other>>
loopVars == <<mpc, videos_to_process, vi, metadata, transcript_data,
              is_scraped, success>>
countVars == <<added_count, updated_count, scraped_count, error_count>>
storeVars == <<committed, working, db_before, spc, pending>>
mainVars == <<loopVars, countVars, storeVars>>
apiVars == <<apc, response, requests, api_result>>
vars == <<fetchVars, parseVars, dedupVars, callVars, mainVars, apiVars>>

Scripts == {"fetch_transcripts", "fetch_youtube"}

\* The exit codes subprocess.run may report.
ReturnCodes == {0, 1}

\* The clients with the web client tried first.
ClientsWebFirst(s) ==
    IF s = "fetch_youtube" THEN <<"web", "android", "ios">> ELSE <<"default">>

\* The player clients the script's yt-dlp commands name, in the order tried.
Clients(s) ==
    IF s = "fetch_youtube" THEN <<"android", "web", "ios">> ELSE <<"default">>

VideoId == "video_id"

(***************************************************************************)
(* The caption files the model reads: every sequence of at most MaxLines   *)
(* lines of a pool.                                                        *)
(***************************************************************************)
LinePool ==
    { <<>>,
      <<"Hello">>,
      <<" ", "Hello", "\t", " ", "world", " ">>,
      <<"00:00:00.000", " ", "-->", " ", "00:00:02.000">>,
      <<"00:00:02.000", " ", "-->", " ", "01:02:03.500", " ",
        "align:start position:0%">>,
      <<"00:00:04.000", " ", "-->", " ", "0:00:05.000">>,
      <<"WEBVTT">>,
      <<"Kind:", " ", "captions">>,
      <<"1">> }

Files(pool) == UNION { [1..n -> pool] : n \in 0..MaxLines }

(***************************************************************************)
(* parse_vtt_file_with_timestamps: the tests of the scanner.               *)
(***************************************************************************)
\* line == "WEBVTT" or line.startswith("Kind:") or line.startswith("Language:")
IsHeader(line) ==
    \/ line = <<"WEBVTT">>
    \/ line # <<>> /\ line[1] = "Kind:"
    \/ line # <<>> /\ line[1] = "Language:"

\* A match that asks only for the start timestamp and the arrow.
StartArrowOnly(line) ==
    /\ Len(line) >= 3
    /\ line[1] \in Timestamps
    /\ line[2] = " "
    /\ line[3] = "-->"

\* re.match(r'(\d{2}:\d{2}:\d{2}\.\d{3}) --> (\d{2}:\d{2}:\d{2}\.\d{3})', line)
TimestampMatch(line) ==
    /\ Len(line) >= 5
    /\ line[1] \in Timestamps
    /\ line[2] = " "
    /\ line[3] = "-->"
    /\ line[4] = " "
    /\ line[5] \in Timestamps

\* timestamp_match.group(1), timestamp_match.group(2)
MatchStart(line) == line[1]
MatchEnd(line) == IF Len(line) >= 5 THEN line[5] ELSE None

\* re.match(r'\d{2}:\d{2}:\d{2}\.\d{3} -->', lines[i]), on the unstripped line
NextCueMatch(raw) ==
    /\ Len(raw) >= 3
    /\ raw[1] \in Timestamps
    /\ raw[2] = " "
    /\ raw[3] = "-->"

\* A digit test that no line passes.
NeverDigit(line) == FALSE

\* lines[i].strip().isdigit()
IsDigitLine(line) == line # <<>> /\ \A k \in 1..Len(line) : line[k] \in Digits

\* while i < len(lines): the outer loop's condition
MoreLines(ls, k) == k <= Len(ls)

\* A loop condition that does not test the index.
NoBoundTest(ls, k) == TRUE

\* i < len(lines) in the conditions of the two inner loops
InLines(ls, k) == k <= Len(ls)

\* Python's truth value of current_start: None and "" are false.
Truthy(s) == s # None /\ s # ""

(***************************************************************************)
(* parse_vtt_file_with_timestamps: the loops of the scanner.  A read of    *)
(* lines[k] outside the list raises IndexError: err.                       *)
(***************************************************************************)
\* A skip that skips nothing.
SkipNothing(ls, k) == [i |-> k, err |-> FALSE]

\* while i < len(lines) and not lines[i].strip(): i += 1
RECURSIVE SkipBlankLines(_, _)
SkipBlankLines(ls, k) ==
    IF ~InLines(ls, k) THEN [i |-> k, err |-> FALSE]
    ELSE IF k \notin DOMAIN ls THEN [i |-> k, err |-> TRUE]
    ELSE IF Strip(ls[k]) = <<>> THEN SkipBlankLines(ls, k + 1)
    ELSE [i |-> k, err |-> FALSE]

\* while i < len(lines) and lines[i].strip() and not re.match(..., lines[i]):
\*     if not lines[i].strip().isdigit(): current_text += lines[i].strip() + " "
\*     i += 1
RECURSIVE CollectText(_, _, _)
CollectText(ls, k, text) ==
    IF ~InLines(ls, k) THEN [i |-> k, text |-> text, err |-> FALSE]
    ELSE IF k \notin DOMAIN ls THEN [i |-> k, text |-> text, err |-> TRUE]
    ELSE IF Strip(ls[k]) # <<>> /\ ~NextCueMatch(ls[k])
         THEN CollectText(ls, k + 1,
                          IF ~IsDigitLine(Strip(ls[k]))
                          THEN text \o Strip(ls[k]) \o <<" ">>
                          ELSE text)
         ELSE [i |-> k, text |-> text, err |-> FALSE]

\* A close of the cue that appends the segment and leaves the plain
\* transcript as it is.
CloseCueSegmentOnly(start, end, text, segs, plain) ==
    IF Truthy(start) /\ text # <<>> /\ clean_vtt_text(text) # <<>>
    THEN [segs |-> Append(segs, [start_time |-> start, end_time |-> end,
                                 text |-> clean_vtt_text(text)]),
          plain |-> plain]
    ELSE [segs |-> segs, plain |-> plain]

\* A close of the cue that appends the segment without looking at the
\* sanitized text.
CloseCueUnchecked(start, end, text, segs, plain) ==
    IF Truthy(start) /\ text # <<>>
    THEN [segs |-> Append(segs, [start_time |-> start, end_time |-> end,
                                 text |-> clean_vtt_text(text)]),
          plain |-> plain \o clean_vtt_text(text) \o <<" ">>]
    ELSE [segs |-> segs, plain |-> plain]

\* if current_start and current_text: clean the text and, if any is left,
\* append the segment and add its text to the plain transcript
CloseCue(start, end, text, segs, plain) ==
    IF Truthy(start) /\ text # <<>>
    THEN LET clean_text == clean_vtt_text(text)
         IN  IF clean_text # <<>>
             THEN [segs |-> Append(segs, [start_time |-> start,
                                          end_time |-> end,
                                          text |-> clean_text]),
                   plain |-> plain \o clean_text \o <<" ">>]
             ELSE [segs |-> segs, plain |-> plain]
    ELSE [segs |-> segs, plain |-> plain]

(***************************************************************************)
(* fetch_transcript_with_timestamps: what it returns.                      *)
(***************************************************************************)
NoneValue == [ret |-> "None"]

Transcript(full_text, segs, duration) ==
    [ret |-> "dict", video_id |-> VideoId, full_text |-> full_text,
     timestamped_segments |-> segs, duration |-> duration, language |-> "en"]

\* fetch_youtube's placeholder transcript around a message
Placeholder(message) ==
    Transcript(message,
               <<[start_time |-> "00:00:00.000", end_time |-> "00:00:10.000",
                  text |-> message]>>,
               0)

NoTranscriptMessage == <<"No transcript available for video ", VideoId>>

\* The return when every yt-dlp run exited non-zero.
AllMethodsFailed(s) ==
    IF s = "fetch_youtube" THEN Placeholder(NoTranscriptMessage) ELSE NoneValue

\* A placeholder from either script.
AlwaysPlaceholder(s) == Placeholder(NoTranscriptMessage)

\* The return when the temporary directory holds no .vtt file of the video.
NoSubtitleFile(s) ==
    IF s = "fetch_youtube" THEN Placeholder(NoTranscriptMessage) ELSE NoneValue

\* The return of the except clause.
ExceptionReturn(s, e) ==
    IF s = "fetch_youtube"
    THEN Placeholder(<<"Error fetching transcript: ", e>>)
    ELSE NoneValue

\* if timestamped_segments:
HasSegments(segs) == segs # <<>>

FirstOf(segs) == segs[1]

\* last_segment = timestamped_segments[-1]
LastOf(segs) == segs[Len(segs)]

\* duration: 0, or the end of the last segment as hours * 3600 + minutes * 60
\* + seconds, in milliseconds here (a float of seconds in the code)
DurationOf(segs) ==
    IF HasSegments(segs)
    THEN LET parts == TimeParts(LastOf(segs).end_time)
         IN  (parts.hours * 3600 + parts.minutes * 60 + parts.seconds) * 1000
             + parts.millis
    ELSE 0

(***************************************************************************)
(* parse_vtt_file_with_timestamps: the locals of a call.                   *)
(***************************************************************************)
\* Locals that start from the lists the running call has filled so far.
StaleFrame(ls) ==
    [pc |-> "scan", lines |-> ls, i |-> 1,
     current_start |-> None, current_end |-> None, current_text |-> <<>>,
     timestamped_segments |-> timestamped_segments,
     plain_transcript |-> plain_transcript]

\* lines = f.readlines(); plain_transcript = ""; timestamped_segments = [];
\* current_start = None; current_end = None; current_text = ""; i = 0
NewFrame(ls) ==
    [pc |-> "scan", lines |-> ls, i |-> 1,
     current_start |-> None, current_end |-> None, current_text |-> <<>>,
     timestamped_segments |-> <<>>,
     plain_transcript |-> <<>>]

\* The call of the model's fetch takes these locals.
EnterParse(ls) ==
    LET frame == NewFrame(ls)
    IN  /\ pc' = frame.pc
        /\ lines' = frame.lines
        /\ i' = frame.i
        /\ current_start' = frame.current_start
        /\ current_end' = frame.current_end
        /\ current_text' = frame.current_text
        /\ timestamped_segments' = frame.timestamped_segments
        /\ plain_transcript' = frame.plain_transcript

(***************************************************************************)
(* Initial states.                                                         *)
(***************************************************************************)
\* One call so far, none before it and no second call running.
CallsIdle ==
    /\ calls = 1
    /\ earlier = [ret |-> "pending"]
    /\ other = [pc |-> "idle"]

\* main() is not running and the database is empty.
MainIdle ==
    /\ mpc = "idle"
    /\ videos_to_process = <<>>
    /\ vi = 0
    /\ metadata = "pending"
    /\ transcript_data = "pending"
    /\ is_scraped = 0
    /\ success = "pending"
    /\ added_count = 0
    /\ updated_count = 0
    /\ scraped_count = 0
    /\ error_count = 0
    /\ committed = {}
    /\ working = {}
    /\ db_before = {}
    /\ spc = "idle"
    /\ pending = <<>>

\* fetch_youtube_videos has not been called.
ApiIdle ==
    /\ apc = "idle"
    /\ response = [status_code |-> 0]
    /\ requests = 0
    /\ api_result = "pending"

ParseIdle ==
    /\ lines = <<>>
    /\ i = 1
    /\ current_start = None
    /\ current_end = None
    /\ current_text = <<>>
    /\ timestamped_segments = <<>>
    /\ plain_transcript = <<>>

DedupIdle ==
    /\ dedup_arg = <<>>
    /\ dedup_once = <<>>
    /\ dedup_twice = <<>>
    /\ dpc = "idle"

\* fetch_transcript_with_timestamps(video_id) is entered by either script.
Init ==
    /\ script \in Scripts
    /\ pc = "download"
    /\ attempts = <<>>
    /\ exc = None
    /\ branch = "pending"
    /\ result = [ret |-> "pending"]
    /\ ParseIdle
    /\ DedupIdle
    /\ CallsIdle
    /\ MainIdle
    /\ ApiIdle

(***************************************************************************)
(* fetch_transcript_with_timestamps: the download.                         *)
(***************************************************************************)
Return(value, through) ==
    /\ result' = value
    /\ branch' = through
    /\ pc' = "done"

\* subprocess.run(command): the next client's run ends with an exit code.
\* Zero goes on to the subtitle file, non-zero to the next client if the
\* script has one and to the failure return if not.
RunYtDlp ==
    /\ pc = "download"
    /\ Len(attempts) < Len(Clients(script))
    /\ \E rc \in ReturnCodes :
        LET n == Len(attempts) + 1
        IN  /\ attempts' = Append(attempts,
                                  [client |-> Clients(script)[n], returncode |-> rc])
            /\ IF rc = 0
               THEN pc' = "find" /\ UNCHANGED <<result, branch>>
               ELSE IF n < Len(Clients(script))
                    THEN pc' = "download" /\ UNCHANGED <<result, branch>>
                    ELSE Return(AllMethodsFailed(script), "download_failed")
    /\ UNCHANGED <<script, exc, parseVars, dedupVars, callVars, mainVars, apiVars>>

\* subprocess.run raises (yt-dlp cannot be started).
RunYtDlpRaises ==
    /\ pc = "download"
    /\ Len(attempts) < Len(Clients(script))
    /\ exc' = "OSError"
    /\ pc' = "except"
    /\ UNCHANGED <<script, attempts, branch, result, parseVars, dedupVars, callVars, mainVars, apiVars>>

\* for file in os.listdir(temp_dir): ... if not subtitle_file: return ...
FindSubtitleFile ==
    /\ pc = "find"
    /\ \E found \in BOOLEAN :
        IF found
        THEN pc' = "read" /\ UNCHANGED <<result, branch>>
        ELSE Return(NoSubtitleFile(script), "no_subtitle_file")
    /\ UNCHANGED <<script, attempts, exc, parseVars, dedupVars, callVars, mainVars, apiVars>>

\* lines = f.readlines() and the scanner's locals
ReadFrom(files) ==
    /\ pc = "read"
    /\ \E file \in files : EnterParse(file)
    /\ UNCHANGED <<script, attempts, exc, branch, result, dedupVars, callVars, mainVars, apiVars>>

ReadLines(pool) == ReadFrom(Files(pool))

\* open() or readlines() raises (the file is not UTF-8).
ReadLinesRaises ==
    /\ pc = "read"
    /\ exc' = "UnicodeDecodeError"
    /\ pc' = "except"
    /\ UNCHANGED <<script, attempts, branch, result, parseVars, dedupVars, callVars, mainVars, apiVars>>

(***************************************************************************)
(* parse_vtt_file_with_timestamps: one action per pass of the outer loop.  *)
(***************************************************************************)
\* A header line: i += 1; continue
ScanHeader ==
    /\ pc = "scan"
    /\ MoreLines(lines, i)
    /\ IsHeader(Strip(lines[i]))
    /\ i' = i + 1
    /\ UNCHANGED <<fetchVars, lines, current_start, current_end, current_text,
                   timestamped_segments, plain_transcript, dedupVars, callVars, mainVars, apiVars>>

\* A timestamp line: the cue collected so far is closed, the new cue opened,
\* the blank lines behind it skipped and its text lines collected.
ScanTimestamp ==
    /\ pc = "scan"
    /\ MoreLines(lines, i)
    /\ ~IsHeader(Strip(lines[i]))
    /\ TimestampMatch(Strip(lines[i]))
    /\ LET line == Strip(lines[i])
           closed == CloseCue(current_start, current_end, current_text,
                              timestamped_segments, plain_transcript)
           skipped == SkipBlankLines(lines, i + 1)
           collected == IF skipped.err
                        THEN [i |-> skipped.i, text |-> <<>>, err |-> TRUE]
                        ELSE CollectText(lines, skipped.i, <<>>)
       IN  /\ timestamped_segments' = closed.segs
           /\ plain_transcript' = closed.plain
           /\ current_start' = MatchStart(line)
           /\ current_end' = MatchEnd(line)
           /\ current_text' = collected.text
           /\ i' = collected.i
           /\ IF collected.err
              THEN pc' = "except" /\ exc' = "IndexError"
              ELSE UNCHANGED <<pc, exc>>
    /\ UNCHANGED <<script, attempts, branch, result, lines, dedupVars, callVars, mainVars, apiVars>>

\* A pass over any other line that leaves the index where it is.
ScanOtherStuck ==
    /\ pc = "scan"
    /\ MoreLines(lines, i)
    /\ ~IsHeader(Strip(lines[i]))
    /\ ~TimestampMatch(Strip(lines[i]))
    /\ i' = i
    /\ UNCHANGED <<fetchVars, lines, current_start, current_end, current_text,
                   timestamped_segments, plain_transcript, dedupVars, callVars, mainVars, apiVars>>

\* Any other line: i += 1
ScanOther ==
    /\ pc = "scan"
    /\ MoreLines(lines, i)
    /\ ~IsHeader(Strip(lines[i]))
    /\ ~TimestampMatch(Strip(lines[i]))
    /\ i' = i + 1
    /\ UNCHANGED <<fetchVars, lines, current_start, current_end, current_text,
                   timestamped_segments, plain_transcript, dedupVars, callVars, mainVars, apiVars>>

\* An end of the loop that forgets the cue still open.
FinishParseNoFlush ==
    /\ pc = "scan"
    /\ ~MoreLines(lines, i)
    /\ plain_transcript' = Strip(CollapseWhitespace(plain_transcript))
    /\ timestamped_segments' = deduplicate_segments(timestamped_segments)
    /\ pc' = "duration"
    /\ UNCHANGED <<script, attempts, exc, branch, result, lines, i,
                   current_start, current_end, current_text, dedupVars, callVars, mainVars, apiVars>>

\* After the loop: the last cue is closed, the plain transcript cleaned up and
\* the segments de-duplicated; the function returns both.
FinishParse ==
    /\ pc = "scan"
    /\ ~MoreLines(lines, i)
    /\ LET closed == CloseCue(current_start, current_end, current_text,
                              timestamped_segments, plain_transcript)
       IN  /\ plain_transcript' = Strip(CollapseWhitespace(closed.plain))
           /\ timestamped_segments' = deduplicate_segments(closed.segs)
    /\ pc' = "duration"
    /\ UNCHANGED <<script, attempts, exc, branch, result, lines, i,
                   current_start, current_end, current_text, dedupVars, callVars, mainVars, apiVars>>

\* The duration is taken from the last segment and the transcript returned;
\* timestamped_segments[-1] of an empty list raises IndexError.
ReturnTranscript ==
    /\ pc = "duration"
    /\ IF HasSegments(timestamped_segments) /\ timestamped_segments = <<>>
       THEN pc' = "except" /\ exc' = "IndexError" /\ UNCHANGED <<result, branch>>
       ELSE /\ Return(Transcript(plain_transcript, timestamped_segments,
                                 DurationOf(timestamped_segments)), "parsed")
            /\ UNCHANGED exc
    /\ UNCHANGED <<script, attempts, parseVars, dedupVars, callVars, mainVars, apiVars>>

\* except Exception as e: ...
HandleException ==
    /\ pc = "except"
    /\ Return(ExceptionReturn(script, exc), "exception")
    /\ UNCHANGED <<script, attempts, exc, parseVars, dedupVars, callVars, mainVars, apiVars>>

NextWith(pool) ==
    \/ RunYtDlp
    \/ RunYtDlpRaises
    \/ FindSubtitleFile
    \/ ReadLines(pool)
    \/ ReadLinesRaises
    \/ ScanHeader
    \/ ScanTimestamp
    \/ ScanOther
    \/ FinishParse
    \/ ReturnTranscript
    \/ HandleException

Next == NextWith(LinePool)

Spec == Init /\ [][Next]_vars

(***************************************************************************)
(* The same program reading caption files with inline markup: timing tags  *)
(* and <c> tags, alone, around words and inside one another, and a         *)
(* timestamp line behind leading whitespace.                               *)
(***************************************************************************)
MarkupPool ==
    { <<"Hello">>,
      <<"00:00:00.000", " ", "-->", " ", "00:00:02.000">>,
      <<" ", "00:00:02.000", " ", "-->", " ", "00:00:04.000">>,
      <<"<", "c", ">", "<", "/", "c", ">">>,
      <<"<", "00:00:02.000", ">", "<", "c", ">", " ", "world", "<", "/", "c", ">">>,
      <<"<", "<", "c", ">", "c", ">">>,
      <<"<", "00:00:02.000", "<", "/", "c", ">", ">">>,
      <<"WEBVTT">> }

NextMarkup == NextWith(MarkupPool)

SpecMarkup == Init /\ [][NextMarkup]_vars

(***************************************************************************)
(* The parser as a sequential process: entered on the subtitle file of a   *)
(* download, it takes the step that it can take.  Its definition stands    *)
(* behind that of the two calls below, whose initial state it shares.      *)
(***************************************************************************)
MaxFair == 3

FairPool ==
    { <<>>,
      <<"Hello">>,
      <<"00:00:00.000", " ", "-->", " ", "00:00:02.000">>,
      <<"00:00:04.000", " ", "-->", " ", "0:00:05.000">>,
      <<"WEBVTT">> }

FairFiles == UNION { [1..n -> FairPool] : n \in 0..MaxFair }

NextFair ==
    \/ ReadFrom(FairFiles)
    \/ ScanHeader
    \/ ScanTimestamp
    \/ ScanOther
    \/ FinishParse
    \/ ReturnTranscript

\* A pass of the parser's outer loop.
LoopPass == ScanHeader \/ ScanTimestamp \/ ScanOther

\* The parser leaves the loop behind the last line: the step FinishParse
\* takes, told by the position it leaves and the one it reaches.
LeaveLoop == pc = "scan" /\ ~MoreLines(lines, i) /\ pc' = "duration"

(***************************************************************************)
(* The same program reading caption files whose cues overlap: a long cue   *)
(* and a shorter one that starts and ends inside it.                       *)
(***************************************************************************)
OverlapPool ==
    { <<"Hello">>,
      <<"world">>,
      <<"00:00:00.000", " ", "-->", " ", "01:02:03.500">>,
      <<"00:00:02.000", " ", "-->", " ", "00:00:04.000">>,
      <<"WEBVTT">> }

NextOverlap == NextWith(OverlapPool)

SpecOverlap == Init /\ [][NextOverlap]_vars

(***************************************************************************)
(* The parser called a second time on the file it has just parsed: the     *)
(* process goes on after the first call and whatever that call left is     *)
(* still there.                                                            *)
(***************************************************************************)
AgainPool ==
    { <<>>,
      <<"Hello">>,
      <<" ", "Hello", "\t", " ", "world", " ">>,
      <<"00:00:00.000", " ", "-->", " ", "00:00:02.000">>,
      <<"00:00:02.000", " ", "-->", " ", "01:02:03.500", " ",
        "align:start position:0%">>,
      <<"WEBVTT">> }

\* parse_vtt_file_with_timestamps(subtitle_file) once more on the same file
CallAgain ==
    /\ pc = "done"
    /\ branch = "parsed"
    /\ calls = 1
    /\ calls' = 2
    /\ earlier' = result
    /\ result' = [ret |-> "pending"]
    /\ branch' = "pending"
    /\ EnterParse(lines)
    /\ UNCHANGED <<script, attempts, exc, dedupVars, other, mainVars, apiVars>>

NextAgain == NextWith(AgainPool) \/ CallAgain

SpecAgain == Init /\ [][NextAgain]_vars

(***************************************************************************)
(* Two calls of the parser on two files, running at the same time: the     *)
(* call of the fetch above and a second call with locals of its own, their *)
(* passes of the outer loop interleaved in any order.                      *)
(***************************************************************************)
MaxShort == 2

InterleavedPool ==
    { <<"Hello">>,
      <<"00:00:00.000", " ", "-->", " ", "00:00:02.000">>,
      <<"00:00:02.000", " ", "-->", " ", "00:00:04.000">>,
      <<"WEBVTT">> }

ShortFiles == UNION { [1..n -> InterleavedPool] : n \in 0..MaxShort }

\* One pass of the outer loop on the locals of a call, or, behind the last
\* line, the close of the last cue, the clean-up and the de-duplication.
ScanPass(frame) ==
    IF frame.pc # "scan" THEN frame
    ELSE IF ~MoreLines(frame.lines, frame.i)
    THEN LET closed == CloseCue(frame.current_start, frame.current_end,
                                frame.current_text,
                                frame.timestamped_segments,
                                frame.plain_transcript)
         IN  [frame EXCEPT
                 !.pc = "returned",
                 !.plain_transcript = Strip(CollapseWhitespace(closed.plain)),
                 !.timestamped_segments = deduplicate_segments(closed.segs)]
    ELSE LET line == Strip(frame.lines[frame.i])
         IN  IF IsHeader(line) THEN [frame EXCEPT !.i = frame.i + 1]
             ELSE IF TimestampMatch(line)
             THEN LET closed == CloseCue(frame.current_start,
                                         frame.current_end,
                                         frame.current_text,
                                         frame.timestamped_segments,
                                         frame.plain_transcript)
                      skipped == SkipBlankLines(frame.lines, frame.i + 1)
                      collected ==
                          IF skipped.err
                          THEN [i |-> skipped.i, text |-> <<>>, err |-> TRUE]
                          ELSE CollectText(frame.lines, skipped.i, <<>>)
                  IN  [frame EXCEPT
                          !.pc = IF collected.err THEN "raised" ELSE "scan",
                          !.timestamped_segments = closed.segs,
                          !.plain_transcript = closed.plain,
                          !.current_start = MatchStart(line),
                          !.current_end = MatchEnd(line),
                          !.current_text = collected.text,
                          !.i = collected.i]
             ELSE [frame EXCEPT !.i = frame.i + 1]

\* The second call is entered: it reads its file and sets up its locals.
OtherEnter ==
    /\ other.pc = "idle"
    /\ \E file \in ShortFiles : other' = NewFrame(file)
    /\ UNCHANGED <<fetchVars, parseVars, dedupVars, calls, earlier,
                   mainVars, apiVars>>

\* The second call makes one pass of its loop, or returns.
OtherPass ==
    /\ other.pc = "scan"
    /\ other' = ScanPass(other)
    /\ UNCHANGED <<fetchVars, parseVars, dedupVars, calls, earlier,
                   mainVars, apiVars>>

\* The first call is about to read the subtitle file its download left.
InterleavedInit ==
    /\ script = "fetch_transcripts"
    /\ pc = "read"
    /\ attempts = <<[client |-> "default", returncode |-> 0]>>
    /\ exc = None
    /\ branch = "pending"
    /\ result = [ret |-> "pending"]
    /\ ParseIdle
    /\ DedupIdle
    /\ CallsIdle
    /\ MainIdle
    /\ ApiIdle

NextInterleaved ==
    \/ ReadFrom(ShortFiles)
    \/ ScanHeader
    \/ ScanTimestamp
    \/ ScanOther
    \/ FinishParse
    \/ ReturnTranscript
    \/ OtherEnter
    \/ OtherPass

SpecInterleaved == InterleavedInit /\ [][NextInterleaved]_vars

SpecFair ==
    /\ InterleavedInit
    /\ [][NextFair]_vars
    /\ WF_vars(LoopPass)
    /\ WF_pc(LeaveLoop)

(***************************************************************************)
(* deduplicate_segments called on any list of segments, and again on its   *)
(* result.                                                                 *)
(***************************************************************************)
SegmentPool ==
    [start_time : {"00:00:00.000", "00:00:02.000", "00:00:04.000"},
     end_time : {"00:00:02.000", "00:00:04.000"},
     text : {<<"Hello">>, <<"Hello", " ", "world">>}]

SegmentLists == UNION { [1..n -> SegmentPool] : n \in 0..MaxSegs }

FetchIdle ==
    /\ script = "fetch_transcripts"
    /\ pc = "idle"
    /\ attempts = <<>>
    /\ exc = None
    /\ branch = "pending"
    /\ result = [ret |-> "pending"]

DedupInit ==
    /\ dedup_arg \in SegmentLists
    /\ dedup_once = <<>>
    /\ dedup_twice = <<>>
    /\ dpc = "start"
    /\ FetchIdle
    /\ ParseIdle
    /\ CallsIdle
    /\ MainIdle
    /\ ApiIdle

CallDedup ==
    /\ dpc = "start"
    /\ dedup_once' = deduplicate_segments(dedup_arg)
    /\ dpc' = "once"
    /\ UNCHANGED <<dedup_arg, dedup_twice, fetchVars, parseVars, callVars, mainVars, apiVars>>

CallDedupAgain ==
    /\ dpc = "once"
    /\ dedup_twice' = deduplicate_segments(dedup_once)
    /\ dpc' = "twice"
    /\ UNCHANGED <<dedup_arg, dedup_once, fetchVars, parseVars, callVars, mainVars, apiVars>>

DedupNext == CallDedup \/ CallDedupAgain

SpecDedup == DedupInit /\ [][DedupNext]_vars

(***************************************************************************)
(* main(): the processing loop of either script, and store_video_data on   *)
(* the connection the loop keeps open.  A row of the database is the table *)
(* it is in, the video it belongs to, the segment it holds (0 for a row    *)
(* that holds none) and whether this run wrote it.                         *)
(***************************************************************************)
MaxVideos == 2

VideoIds == <<"v1", "v2", "v3">>

\* One entry of videos_to_process.  is_new: its url is not in existing_urls;
\* has_og: the entry carries an og_title, og_description, og_image or
\* keywords of its own.
Video(k, new, og) == [video_id |-> VideoIds[k], is_new |-> new, has_og |-> og]

\* videos_to_process = new_videos + updating_videos: the new ones come first.
VideoLists ==
    { vs \in UNION { [1..n -> [video_id : {VideoIds[k] : k \in 1..MaxVideos},
                               is_new : BOOLEAN, has_og : BOOLEAN]]
                     : n \in 0..MaxVideos } :
        /\ \A k \in DOMAIN vs : vs[k].video_id = VideoIds[k]
        /\ \A j, k \in DOMAIN vs : (j < k /\ vs[k].is_new) => vs[j].is_new }

Row(table, video_id, seg, rev) ==
    [table |-> table, video |-> video_id, seg |-> seg, rev |-> rev]

\* The rows an earlier run left for the videos that are not new.
ExistingRows(vs) ==
    { Row(t, vs[k].video_id, 0, "old") :
        t \in {"content", "youtube"}, k \in { j \in DOMAIN vs : ~vs[j].is_new } }

\* fetch_youtube_metadata returns {} or a dict of the video's fields.
MetadataReturns == {"{}", "dict"}

OneSegment ==
    <<[start_time |-> "00:00:00.000", end_time |-> "00:00:02.000",
       text |-> <<"Hello">>]>>

\* What fetch_transcript_with_timestamps hands to the loop: its failure
\* returns and a transcript.
TranscriptReturns(s) ==
    {AllMethodsFailed(s), ExceptionReturn(s, "IndexError"),
     Transcript(<<"Hello">>, OneSegment, 2000)}

\* if transcript_data:
HasTranscript(td) == td.ret = "dict"

\* "No transcript available" not in transcript_data["full_text"]
MentionsNoTranscript(full_text) ==
    \E k \in DOMAIN full_text : full_text[k] = "No transcript available for video "

\* is_scraped = 1 if transcript_data and "No transcript available" not in
\* transcript_data["full_text"] else 0
IsScraped(td) ==
    IF HasTranscript(td) /\ ~MentionsNoTranscript(td.full_text) THEN 1 ELSE 0

\* Whether store_video_data writes the metadata table: fetch_youtube tests
\* its metadata argument, fetch_transcripts the og_ fields of the video.
WritesMetadata(s, video, md) ==
    IF s = "fetch_youtube" THEN md = "dict" ELSE video.has_og

Statement(op, table, seg) == [op |-> op, table |-> table, seg |-> seg]

\* The statements of one call of store_video_data, in the order of the code:
\* the cursor, the content row, the metadata row, the youtube row, the
\* transcript row and one row for each segment.  UPDATE-if-SELECT-finds-
\* else-INSERT (fetch_youtube) and INSERT OR REPLACE (fetch_transcripts)
\* both leave one row of the table for the video: "upsert".
Statements(s, video, md, td) ==
    <<Statement("cursor", "none", 0), Statement("upsert", "content", 0)>>
    \o (IF WritesMetadata(s, video, md)
        THEN <<Statement("upsert", "metadata", 0)>> ELSE <<>>)
    \o <<Statement("upsert", "youtube", 0)>>
    \o (IF HasTranscript(td)
        THEN <<Statement("insert", "transcript", 0)>>
             \o [k \in 1..Len(td.timestamped_segments) |->
                    Statement("insert", "transcript_segments", k)]
        ELSE <<>>)

\* cursor.execute(...): the rows after a statement that succeeds.
Apply(st, video_id, db) ==
    CASE st.op = "cursor" -> db
      [] st.op = "upsert" ->
            { r \in db : ~(r.table = st.table /\ r.video = video_id) }
            \union {Row(st.table, video_id, st.seg, "new")}
      [] st.op = "insert" ->
            db \union {Row(st.table, video_id, st.seg, "new")}

\* The loop is about to start on a database that holds the existing videos.
MainInit ==
    /\ script \in Scripts
    /\ pc = "idle"
    /\ attempts = <<>>
    /\ exc = None
    /\ branch = "pending"
    /\ result = [ret |-> "pending"]
    /\ ParseIdle
    /\ DedupIdle
    /\ CallsIdle
    /\ ApiIdle
    /\ mpc = "loop"
    /\ videos_to_process \in VideoLists
    /\ vi = 0
    /\ metadata = "pending"
    /\ transcript_data = "pending"
    /\ is_scraped = 0
    /\ success = "pending"
    /\ added_count = 0
    /\ updated_count = 0
    /\ scraped_count = 0
    /\ error_count = 0
    /\ committed = ExistingRows(videos_to_process)
    /\ working = committed
    /\ db_before = committed
    /\ spc = "idle"
    /\ pending = <<>>

otherVars == <<fetchVars, parseVars, dedupVars, callVars, apiVars>>

\* for i, video in enumerate(videos_to_process): the next video, or the end
\* of the loop.
NextVideo ==
    /\ mpc = "loop"
    /\ IF vi < Len(videos_to_process)
       THEN vi' = vi + 1 /\ mpc' = "metadata"
       ELSE vi' = vi /\ mpc' = "done"
    /\ UNCHANGED <<videos_to_process, metadata, transcript_data, is_scraped,
                   success, countVars, storeVars, otherVars>>

\* metadata = fetch_youtube_metadata(video_id)
FetchMetadata ==
    /\ mpc = "metadata"
    /\ metadata' \in MetadataReturns
    /\ mpc' = "transcript"
    /\ UNCHANGED <<videos_to_process, vi, transcript_data, is_scraped, success,
                   countVars, storeVars, otherVars>>

\* transcript_data = fetch_transcript_with_timestamps(video_id); fetch_youtube
\* goes on to set is_scraped and to count the video as scraped.
FetchTranscript ==
    /\ mpc = "transcript"
    /\ \E td \in TranscriptReturns(script) :
        /\ transcript_data' = td
        /\ IF script = "fetch_youtube"
           THEN /\ is_scraped' = IsScraped(td)
                /\ scraped_count' = scraped_count + IsScraped(td)
           ELSE UNCHANGED <<is_scraped, scraped_count>>
    /\ mpc' = "store"
    /\ UNCHANGED <<videos_to_process, vi, metadata, success, added_count,
                   updated_count, error_count, storeVars, otherVars>>

\* except Exception as e: error_count += 1, for an exception that leaves the
\* try block from one of the two fetches.
ProcessingRaises ==
    /\ mpc \in {"metadata", "transcript"}
    /\ error_count' = error_count + 1
    /\ mpc' = "loop"
    /\ UNCHANGED <<videos_to_process, vi, metadata, transcript_data, is_scraped,
                   success, added_count, updated_count, scraped_count,
                   storeVars, otherVars>>

\* success = store_video_data(conn, video, metadata, transcript_data): the
\* call is entered.
CallStore ==
    /\ mpc = "store"
    /\ spc = "idle"
    /\ db_before' = committed
    /\ pending' = Statements(script, videos_to_process[vi], metadata,
                             transcript_data)
    /\ spc' = "try"
    /\ success' = "pending"
    /\ UNCHANGED <<videos_to_process, mpc, vi, metadata, transcript_data,
                   is_scraped, countVars, committed, working, otherVars>>

\* The next statement of the try block succeeds: the connection sees its
\* row, the file does not yet.
Execute ==
    /\ spc = "try"
    /\ pending # <<>>
    /\ working' = Apply(Head(pending), videos_to_process[vi].video_id, working)
    /\ pending' = Tail(pending)
    /\ UNCHANGED <<loopVars, countVars, committed, db_before, spc, otherVars>>

\* The next statement of the try block raises and leaves no row of its own.
ExecuteRaises ==
    /\ spc = "try"
    /\ pending # <<>>
    /\ spc' = "except"
    /\ UNCHANGED <<loopVars, countVars, committed, working, db_before, pending,
                   otherVars>>

\* A rollback that leaves the connection's rows as they are.
RollbackKeeps ==
    /\ spc = "except"
    /\ success' = FALSE
    /\ spc' = "return"
    /\ UNCHANGED <<videos_to_process, mpc, vi, metadata, transcript_data,
                   is_scraped, countVars, committed, working, db_before,
                   pending, otherVars>>

\* conn.commit(); return True
Commit ==
    /\ spc = "try"
    /\ pending = <<>>
    /\ committed' = working
    /\ success' = TRUE
    /\ spc' = "return"
    /\ UNCHANGED <<videos_to_process, mpc, vi, metadata, transcript_data,
                   is_scraped, countVars, working, db_before, pending,
                   otherVars>>

\* conn.commit() raises: nothing reaches the file.
CommitRaises ==
    /\ spc = "try"
    /\ pending = <<>>
    /\ spc' = "except"
    /\ UNCHANGED <<loopVars, countVars, committed, working, db_before, pending,
                   otherVars>>

\* except Exception as e: conn.rollback(); return False
Rollback ==
    /\ spc = "except"
    /\ working' = committed
    /\ success' = FALSE
    /\ spc' = "return"
    /\ UNCHANGED <<videos_to_process, mpc, vi, metadata, transcript_data,
                   is_scraped, countVars, committed, db_before, pending,
                   otherVars>>

\* A count that passes over the video whose data could not be stored.
CountVideoStoredOnly ==
    /\ mpc = "store"
    /\ spc = "return"
    /\ IF success
       THEN /\ IF videos_to_process[vi].is_new
               THEN added_count' = added_count + 1 /\ UNCHANGED updated_count
               ELSE updated_count' = updated_count + 1 /\ UNCHANGED added_count
            /\ IF script = "fetch_transcripts" /\ HasTranscript(transcript_data)
               THEN scraped_count' = scraped_count + 1
               ELSE UNCHANGED scraped_count
       ELSE UNCHANGED <<added_count, updated_count, scraped_count>>
    /\ UNCHANGED error_count
    /\ mpc' = "loop"
    /\ spc' = "idle"
    /\ UNCHANGED <<videos_to_process, vi, metadata, transcript_data, is_scraped,
                   success, committed, working, db_before, pending, otherVars>>

\* if success: added_count or updated_count += 1 (and in fetch_transcripts
\* scraped_count += 1 if transcript_data); else: error_count += 1
CountVideo ==
    /\ mpc = "store"
    /\ spc = "return"
    /\ IF success
       THEN /\ IF videos_to_process[vi].is_new
               THEN added_count' = added_count + 1 /\ UNCHANGED updated_count
               ELSE updated_count' = updated_count + 1 /\ UNCHANGED added_count
            /\ IF script = "fetch_transcripts" /\ HasTranscript(transcript_data)
               THEN scraped_count' = scraped_count + 1
               ELSE UNCHANGED scraped_count
            /\ UNCHANGED error_count
       ELSE /\ error_count' = error_count + 1
            /\ UNCHANGED <<added_count, updated_count, scraped_count>>
    /\ mpc' = "loop"
    /\ spc' = "idle"
    /\ UNCHANGED <<videos_to_process, vi, metadata, transcript_data, is_scraped,
                   success, committed, working, db_before, pending, otherVars>>

NextMain ==
    \/ NextVideo
    \/ FetchMetadata
    \/ FetchTranscript
    \/ ProcessingRaises
    \/ CallStore
    \/ Execute
    \/ ExecuteRaises
    \/ Commit
    \/ CommitRaises
    \/ Rollback
    \/ CountVideo

SpecMain == MainInit /\ [][NextMain]_vars

(***************************************************************************)
(* fetch_youtube_videos: the request to the API, the retry of a rate-      *)
(* limited request by a call of the function to itself, and the list made  *)
(* of the answer.                                                          *)
(***************************************************************************)
\* How many calls of fetch_youtube_videos may be nested before the
\* interpreter raises RecursionError (sys.getrecursionlimit(), scaled down).
RecursionLimit == 3

MaxUrls == 2

StatusCodes == {200, 429, 500}

Url(netloc, path, v) == [netloc |-> netloc, path |-> path, v |-> v]

UrlPool ==
    {Url("youtu.be", <<"v1">>, None),
     Url("www.youtube.com", <<"embed", "v2">>, None),
     Url("example.com", <<"watch">>, "v3")}

\* extract_youtube_id(url): the v parameter of a youtube.com/watch url, the
\* second path segment of a youtube.com/embed/ or /v/ url, the path of a
\* youtu.be url, and None for any other.
extract_youtube_id(url) ==
    IF url.netloc = "www.youtube.com"
    THEN IF url.path = <<"watch">> THEN url.v
         ELSE IF Len(url.path) >= 2 /\ url.path[1] \in {"embed", "v"}
              THEN url.path[2]
              ELSE None
    ELSE IF url.netloc = "youtu.be" /\ Len(url.path) = 1 THEN url.path[1]
    ELSE None

\* What response.json() holds: the urls under "data", or text that is no JSON.
Bodies ==
    {[json |-> FALSE]} \union
    { [json |-> TRUE, data |-> d] :
        d \in UNION { [1..n -> UrlPool] : n \in 0..MaxUrls } }

NoResponse == [status_code |-> 0]

Response(sc, body) == [status_code |-> sc, body |-> body]

\* for url in youtube_urls: ... if video_id: youtube_videos.append({...})
RECURSIVE VideosOf(_)
VideosOf(urls) ==
    IF urls = <<>> THEN <<>>
    ELSE LET video_id == extract_youtube_id(Head(urls))
         IN  (IF video_id # None /\ video_id # ""
              THEN <<[video_id |-> video_id, url |-> Head(urls)]>>
              ELSE <<>>) \o VideosOf(Tail(urls))

\* fetch_youtube_videos() is called.
ApiInit ==
    /\ script \in Scripts
    /\ pc = "idle"
    /\ attempts = <<>>
    /\ exc = None
    /\ branch = "pending"
    /\ result = [ret |-> "pending"]
    /\ ParseIdle
    /\ DedupIdle
    /\ CallsIdle
    /\ MainIdle
    /\ apc = "request"
    /\ response = NoResponse
    /\ requests = 0
    /\ api_result = "pending"

restVars == <<fetchVars, parseVars, dedupVars, callVars, mainVars>>

\* response = requests.get(API_ENDPOINT): the API answers.
Request ==
    /\ apc = "request"
    /\ requests < RecursionLimit
    /\ \E sc \in StatusCodes :
        IF sc = 200
        THEN \E body \in Bodies : response' = Response(sc, body)
        ELSE response' = Response(sc, [json |-> FALSE])
    /\ requests' = requests + 1
    /\ apc' = "response"
    /\ UNCHANGED <<api_result, restVars>>

\* requests.get raises: except requests.RequestException: return []
RequestRaises ==
    /\ apc = "request"
    /\ requests < RecursionLimit
    /\ requests' = requests + 1
    /\ response' = NoResponse
    /\ api_result' = <<>>
    /\ apc' = "done"
    /\ UNCHANGED restVars

\* The call of the function to itself exceeds the interpreter's limit of
\* nested calls: RecursionError is raised, neither except clause catches it
\* and it leaves every call of the chain.
RecursionError ==
    /\ apc = "request"
    /\ requests >= RecursionLimit
    /\ api_result' = "RecursionError"
    /\ apc' = "raised"
    /\ UNCHANGED <<response, requests, restVars>>

\* if response.status_code == 429: time.sleep(RATE_LIMIT_SLEEP);
\* return fetch_youtube_videos()
RateLimited ==
    /\ apc = "response"
    /\ response.status_code = 429
    /\ apc' = "request"
    /\ UNCHANGED <<response, requests, api_result, restVars>>

\* if response.status_code != 200: return []
RequestFailed ==
    /\ apc = "response"
    /\ response.status_code \notin {429, 200}
    /\ api_result' = <<>>
    /\ apc' = "done"
    /\ UNCHANGED <<response, requests, restVars>>

\* data = response.json() ... return youtube_videos, or return [] from the
\* except clause when the body is no JSON
ParseResponse ==
    /\ apc = "response"
    /\ response.status_code = 200
    /\ api_result' = IF response.body.json
                     THEN VideosOf(response.body.data) ELSE <<>>
    /\ apc' = "done"
    /\ UNCHANGED <<response, requests, restVars>>

NextApi ==
    \/ Request
    \/ RequestRaises
    \/ RecursionError
    \/ RateLimited
    \/ RequestFailed
    \/ ParseResponse

\* The call is a sequential process: it takes the step it can take.
SpecApi == ApiInit /\ [][NextApi]_vars /\ WF_apiVars(NextApi)

(***************************************************************************)
(* Properties of deduplicate_segments (checked under SpecDedup).           *)
(***************************************************************************)
\* C2: for every input sequence of segments, in any order and with any
\* repeated starts, the de-duplicated output is strictly increasing in start:
\* every retained segment starts before the one retained after it.
C2_StrictlyIncreasingStart ==
    dpc \in {"once", "twice"} =>
        \A k \in 1..(Len(dedup_once) - 1) :
            StrLess(dedup_once[k].start_time, dedup_once[k + 1].start_time)

\* C2 witness: an input that is out of order and repeats a start has been
\* de-duplicated to at least two segments.
C2_Witness ==
    /\ dpc = "once"
    /\ Len(dedup_once) >= 2
    /\ \E j, k \in DOMAIN dedup_arg :
        j < k /\ StrLess(dedup_arg[k].start_time, dedup_arg[j].start_time)
    /\ \E j, k \in DOMAIN dedup_arg :
        j < k /\ dedup_arg[j].start_time = dedup_arg[k].start_time

\* C3: for every input sequence of segments, no two adjacent segments of the
\* de-duplicated output have the same text.
C3_NoAdjacentSameText ==
    dpc \in {"once", "twice"} =>
        \A k \in 1..(Len(dedup_once) - 1) :
            dedup_once[k].text # dedup_once[k + 1].text

\* C3 witness: the input held two segments of the same text and different
\* starts, one was dropped and at least two segments are left.
C3_Witness ==
    /\ dpc = "once"
    /\ Len(dedup_once) >= 2
    /\ Len(dedup_once) < Len(dedup_arg)
    /\ \A j, k \in DOMAIN dedup_arg :
        j # k => dedup_arg[j].start_time # dedup_arg[k].start_time
    /\ \E j, k \in DOMAIN dedup_arg :
        j # k /\ dedup_arg[j].text = dedup_arg[k].text

\* C4: de-duplication is idempotent: de-duplicating the output of
\* deduplicate_segments gives that output again, element for element and in
\* the same order.
C4_DedupIdempotent ==
    dpc = "twice" => dedup_twice = dedup_once

\* C4 witness: the first call dropped a segment and kept at least two, and the
\* second call has run.
C4_Witness ==
    /\ dpc = "twice"
    /\ Len(dedup_once) >= 2
    /\ Len(dedup_once) < Len(dedup_arg)

(***************************************************************************)
(* Properties of the fetch and the parse (checked under Spec).             *)
(***************************************************************************)
\* The lexemes of a string.
Lexemes(s) == { s[k] : k \in DOMAIN s }

\* The fetch returned the transcript of a parsed subtitle file.
Parsed == pc = "done" /\ branch = "parsed"

\* The texts of the segments joined by single spaces.
RECURSIVE JoinTexts(_)
JoinTexts(segs) ==
    IF segs = <<>> THEN <<>>
    ELSE IF Len(segs) = 1 THEN segs[1].text
    ELSE segs[1].text \o <<" ">> \o JoinTexts(Tail(segs))

\* A line that begins, once stripped, with a well-formed start --> end range.
WellFormedRange(line) ==
    /\ Len(Strip(line)) >= 5
    /\ SubSeq(Strip(line), 2, 4) = <<" ", "-->", " ">>
    /\ Strip(line)[1] \in Timestamps
    /\ Strip(line)[5] \in Timestamps

\* C1: for every caption input, full_text equals the texts of the retained
\* (de-duplicated) segments, in retained order, joined by single spaces; a cue
\* dropped by de-duplication contributes nothing to full_text.
C1_FullTextJoinsRetained ==
    Parsed => result.full_text = JoinTexts(result.timestamped_segments)

\* C5: for a transcript parsed from caption text, duration is hours*3600 +
\* minutes*60 + seconds.milliseconds of the end timestamp of the last segment
\* of the de-duplicated sequence (in milliseconds here), and 0 when there are
\* no segments.
C5_DurationIsLastEnd ==
    Parsed =>
        LET segs == result.timestamped_segments
        IN  IF segs = <<>>
            THEN result.duration = 0
            ELSE LET t == TimeParts(segs[Len(segs)].end_time)
                 IN  result.duration =
                         t.hours * 3600000 + t.minutes * 60000
                         + t.seconds * 1000 + t.millis

\* C5 witness: two segments are retained, the file's last cue is not the last
\* retained segment, and the duration has an hour, a minute and a millisecond
\* part.
C5_Witness ==
    /\ Parsed
    /\ Len(result.timestamped_segments) = 2
    /\ current_end = "00:00:02.000"
    /\ result.duration = 3723500

\* C6: for every input, full_text has no leading and no trailing whitespace,
\* holds no tab or newline, and holds no run of two or more spaces.
C6_FullTextNormalized ==
    Parsed =>
        LET t == result.full_text
        IN  /\ t # <<>> => t[1] \notin Whitespace /\ t[Len(t)] \notin Whitespace
            /\ \A k \in DOMAIN t : t[k] \in Whitespace => t[k] = " "
            /\ \A k \in 1..(Len(t) - 1) :
                   ~(t[k] \in Whitespace /\ t[k + 1] \in Whitespace)

\* C6 witness: a text line with leading, trailing, doubled and tab whitespace
\* was collected into a transcript of two cues.
C6_Witness ==
    /\ Parsed
    /\ "world" \in Lexemes(result.full_text)
    /\ Len(result.timestamped_segments) = 2
    /\ \E k \in DOMAIN lines : "\t" \in Lexemes(lines[k])

\* C7: parsing an input without any well-formed timestamp line (empty,
\* header only, arbitrary other text) yields no segments, an empty full_text
\* and duration 0.
C7_NoTimestampLinesEmpty ==
    /\ pc = "duration" /\ (\A k \in DOMAIN lines : ~WellFormedRange(lines[k]))
           => timestamped_segments = <<>> /\ plain_transcript = <<>>
    /\ Parsed /\ (\A k \in DOMAIN lines : ~WellFormedRange(lines[k]))
           => /\ result.timestamped_segments = <<>>
              /\ result.full_text = <<>>
              /\ result.duration = 0

\* C7 witness: a file of a header, a range with a malformed end and text
\* lines, none a well-formed timestamp line, has been parsed.
C7_Witness ==
    /\ Parsed
    /\ Len(lines) >= 3
    /\ \A k \in DOMAIN lines : ~WellFormedRange(lines[k])
    /\ \E k \in DOMAIN lines : NextCueMatch(lines[k])
    /\ \E k \in DOMAIN lines : lines[k] = <<"Hello">>
    /\ \E k \in DOMAIN lines : IsHeader(lines[k])

\* C8: for any sequence of input lines (malformed timestamp lines, cues
\* without text, text outside any cue), parsing, de-duplication and the
\* duration computation raise nothing: no exception leaves the scanner or the
\* duration computation, and once the lines were read the fetch returns a
\* transcript (possibly empty).
C8_ParseNeverRaises ==
    /\ exc # "IndexError"
    /\ pc = "done" /\ exc = None
           /\ branch \notin {"download_failed", "no_subtitle_file"}
           => branch = "parsed" /\ result.ret = "dict"

\* C8 witness: a file that ends with a timestamp line (a cue without text,
\* the inner loops running into the end of the list), holds a malformed range
\* and text outside any cue, has been parsed.
C8_Witness ==
    /\ Parsed
    /\ Len(lines) >= 3
    /\ WellFormedRange(lines[Len(lines)])
    /\ lines[1] = <<"Hello">>
    /\ \E k \in DOMAIN lines : NextCueMatch(lines[k]) /\ ~WellFormedRange(lines[k])

\* C9 (as claimed): the record handed to the persistence layer never holds
\* fabricated text: every segment text and the full_text are made of the
\* caption input's lines only, and when no captions are available the record
\* (if any) has no segments and empty text instead of placeholder content.
C9_NeverFabricatedText ==
    pc = "done" /\ result.ret = "dict" =>
        /\ \A k \in DOMAIN result.timestamped_segments :
               Lexemes(result.timestamped_segments[k].text)
                   \subseteq {" "} \cup UNION { Lexemes(lines[n]) : n \in DOMAIN lines }
        /\ Lexemes(result.full_text)
               \subseteq {" "} \cup UNION { Lexemes(lines[n]) : n \in DOMAIN lines }
        /\ branch # "parsed" =>
               result.timestamped_segments = <<>> /\ result.full_text = <<>>

\* C9 (amended): a record built from a parsed caption file holds no
\* fabricated text: every segment text and the full_text are made of lexemes
\* of the caption input's lines (and separating spaces).  When no captions
\* are available (every download failed, no subtitle file, an exception),
\* fetch_transcripts hands over no record, and fetch_youtube hands over a
\* placeholder record: one segment 00:00:00.000 - 00:00:10.000 whose text, like
\* the full_text, is the placeholder message, and duration 0.
C9_FabricatedOnlyAsPlaceholder ==
    pc = "done" =>
        /\ branch = "parsed" =>
            /\ result.ret = "dict"
            /\ \A k \in DOMAIN result.timestamped_segments :
                   Lexemes(result.timestamped_segments[k].text)
                       \subseteq {" "} \cup UNION { Lexemes(lines[n]) : n \in DOMAIN lines }
            /\ Lexemes(result.full_text)
                   \subseteq {" "} \cup UNION { Lexemes(lines[n]) : n \in DOMAIN lines }
        /\ branch # "parsed" /\ script = "fetch_transcripts" => result.ret = "None"
        /\ branch # "parsed" /\ script = "fetch_youtube" =>
            /\ result.ret = "dict"
            /\ result.full_text[1] \in {"No transcript available for video ",
                                        "Error fetching transcript: "}
            /\ result.timestamped_segments =
                   <<[start_time |-> "00:00:00.000", end_time |-> "00:00:10.000",
                      text |-> result.full_text]>>
            /\ result.duration = 0

\* C9 witness: fetch_youtube found no subtitle file after a successful
\* download and returned the placeholder record.
C9_Witness ==
    /\ pc = "done"
    /\ script = "fetch_youtube"
    /\ branch = "no_subtitle_file"
    /\ result.ret = "dict"
    /\ result.full_text = NoTranscriptMessage

\* C10: a line that is exactly WEBVTT, or that starts with Kind: or
\* Language:, never contributes text to a segment or to full_text, wherever
\* it stands in the input (before the first cue, between cues, or among the
\* text lines of a cue).
C10_HeaderLinesNeverContribute ==
    Parsed =>
        /\ Lexemes(result.full_text) \cap {"WEBVTT", "Kind:", "Language:"} = {}
        /\ \A k \in DOMAIN result.timestamped_segments :
               Lexemes(result.timestamped_segments[k].text)
                   \cap {"WEBVTT", "Kind:", "Language:"} = {}


\* C11: a line made only of digits never contributes text: no digit lexeme
\* reaches the text being accumulated, a segment or full_text, whether the
\* digit line stands before a timestamp line or among the text lines of a cue.
C11_DigitLinesNeverContribute ==
    /\ Lexemes(current_text) \cap Digits = {}
    /\ Lexemes(plain_transcript) \cap Digits = {}
    /\ \A k \in DOMAIN timestamped_segments :
           Lexemes(timestamped_segments[k].text) \cap Digits = {}
    /\ Parsed =>
           /\ Lexemes(result.full_text) \cap Digits = {}
           /\ \A k \in DOMAIN result.timestamped_segments :
                  Lexemes(result.timestamped_segments[k].text) \cap Digits = {}

\* C11 witness: a parsed file with a digit line before the timestamp line and
\* another among the text lines of the cue, whose segment was produced.
C11_Witness ==
    /\ Parsed
    /\ Len(lines) = 4
    /\ IsDigitLine(lines[1])
    /\ WellFormedRange(lines[2])
    /\ IsDigitLine(lines[3])
    /\ lines[4] = <<"Hello">>
    /\ Len(result.timestamped_segments) = 1
    /\ result.timestamped_segments[1].text = <<"Hello">>


\* The segments before the last one, and a segment that sorts after all of
\* them (the stable sort leaves it last, so the loop meets it last).
AllButLast(segs) == SubSeq(segs, 1, Len(segs) - 1)

SortsLast(segs) ==
    /\ Len(segs) >= 2
    /\ \A k \in 1..(Len(segs) - 1) :
           ~StrLess(segs[Len(segs)].start_time, segs[k].start_time)

HasTimingTag(text) ==
    \E k \in 1..(Len(text) - 2) :
        text[k] = "<" /\ text[k + 1] \in Timestamps /\ text[k + 2] = ">"

\* A <c> or </c> tag stands in the text.
HasCTag(text) ==
    \/ \E k \in 1..(Len(text) - 2) : SubSeq(text, k, k + 2) = <<"<", "c", ">">>
    \/ \E k \in 1..(Len(text) - 3) :
           SubSeq(text, k, k + 3) = <<"<", "/", "c", ">">>

\* C13: the text of every segment holds no inline timing tag <HH:MM:SS.mmm>
\* and no <c> or </c> tag, whatever the raw cue text, tags nested in or
\* adjacent to one another included.
C13_SegmentTextHasNoTags ==
    /\ \A k \in DOMAIN timestamped_segments :
           /\ ~HasTimingTag(timestamped_segments[k].text)
           /\ ~HasCTag(timestamped_segments[k].text)
    /\ Parsed =>
           \A k \in DOMAIN result.timestamped_segments :
               /\ ~HasTimingTag(result.timestamped_segments[k].text)
               /\ ~HasCTag(result.timestamped_segments[k].text)


\* Every segment of the list has some text.
AllHaveText(segs) == \A k \in DOMAIN segs : segs[k].text # <<>>

\* C14: a cue whose accumulated text is empty or sanitizes to the empty
\* string produces no segment and leaves the segments of the other cues and
\* the plain transcript as they are: closing it at the next timestamp line
\* changes neither, and closing it at the end of the file hands exactly the
\* segments of the other cues to de-duplication.  So every segment has some
\* text, before and after de-duplication.
C14_EmptyCueProducesNoSegment ==
    /\ [](/\ AllHaveText(timestamped_segments)
          /\ Parsed => AllHaveText(result.timestamped_segments))
    /\ [][(pc = "scan" /\ clean_vtt_text(current_text) = <<>>) =>
              \/ /\ pc' # "duration"
                 /\ timestamped_segments' = timestamped_segments
                 /\ plain_transcript' = plain_transcript
              \/ /\ pc' = "duration"
                 /\ timestamped_segments' =
                        deduplicate_segments(timestamped_segments)
                 /\ plain_transcript' =
                        Strip(CollapseWhitespace(plain_transcript))]_vars

\* C14 witness: a cue whose only text line is a pair of tags was closed by
\* the next timestamp line and left no segment; the file's other cue has one.
C14_Witness ==
    /\ Parsed
    /\ Len(lines) = 4
    /\ lines[1] = <<"00:00:00.000", " ", "-->", " ", "00:00:02.000">>
    /\ lines[2] = <<"<", "c", ">", "<", "/", "c", ">">>
    /\ lines[3] = <<"00:00:00.000", " ", "-->", " ", "00:00:02.000">>
    /\ lines[4] = <<"Hello">>
    /\ Len(result.timestamped_segments) = 1
    /\ result.timestamped_segments[1].text = <<"Hello">>


(***************************************************************************)
(* Properties of repeated calls (checked under SpecAgain).                 *)
(***************************************************************************)
\* C15: parsing is deterministic: the second run of the parse, de-duplicate
\* and assemble pipeline on the same input lines returns the segments,
\* full_text and duration the first run returned; nothing the first run left
\* behind reaches the second.
C15_SecondRunSameResult ==
    (calls = 2 /\ Parsed) =>
        /\ earlier.ret = "dict"
        /\ result.timestamped_segments = earlier.timestamped_segments
        /\ result.full_text = earlier.full_text
        /\ result.duration = earlier.duration

\* C15 witness: the second run of a file with two cues has returned, with
\* both segments, as the first did.
C15_Witness ==
    /\ calls = 2
    /\ Parsed
    /\ Len(result.timestamped_segments) = 2
    /\ result.full_text # <<>>
    /\ result = earlier


(***************************************************************************)
(* Properties of two calls running at the same time (checked under         *)
(* SpecInterleaved).                                                       *)
(***************************************************************************)
\* The call run alone to its return, from the locals it has.
RECURSIVE RunAlone(_)
RunAlone(frame) == IF frame.pc # "scan" THEN frame ELSE RunAlone(ScanPass(frame))

\* What a call returns that runs alone on the lines, from its entry.
ParseAlone(ls) ==
    RunAlone([pc |-> "scan", lines |-> ls, i |-> 1,
              current_start |-> None, current_end |-> None,
              current_text |-> <<>>, timestamped_segments |-> <<>>,
              plain_transcript |-> <<>>])

\* The locals of the first call.
MainFrame ==
    [pc |-> IF pc = "scan" THEN "scan" ELSE "returned", lines |-> lines,
     i |-> i, current_start |-> current_start, current_end |-> current_end,
     current_text |-> current_text,
     timestamped_segments |-> timestamped_segments,
     plain_transcript |-> plain_transcript]

\* C16: when two calls of the parser on two inputs run with their steps
\* interleaved in any order, each returns exactly what it returns when run
\* alone on its input: at every point each call is where a run alone would
\* have brought it and goes on to the result of the run alone, so no step of
\* one call has read or written the locals of the other.
C16_InterleavedRunsAsAlone ==
    /\ pc \in {"scan", "duration", "done"} =>
           RunAlone(MainFrame) = ParseAlone(lines)
    /\ other.pc # "idle" => RunAlone(other) = ParseAlone(other.lines)
    /\ Parsed =>
           /\ result.timestamped_segments =
                  ParseAlone(lines).timestamped_segments
           /\ result.full_text = ParseAlone(lines).plain_transcript

\* C16 witness: the second call ran from entry to return, with a segment of
\* its own, while the first call stood in the middle of another file.
C16_Witness ==
    /\ pc = "scan"
    /\ i = 2
    /\ lines = << <<"WEBVTT">>,
                  <<"00:00:00.000", " ", "-->", " ", "00:00:02.000">> >>
    /\ other.pc = "returned"
    /\ other.lines = << <<"00:00:02.000", " ", "-->", " ", "00:00:04.000">>,
                        <<"Hello">> >>
    /\ Len(other.timestamped_segments) = 1
    /\ other.timestamped_segments[1].text = <<"Hello">>


\* The lines before the k-th that begin, once stripped, with a well-formed
\* range.
RangeLinesBefore(ls, k) ==
    { j \in 1..(k - 1) : j \in DOMAIN ls /\ WellFormedRange(ls[j]) }

\* The greatest member of a non-empty set of line numbers.
LastOfSet(S) == CHOOSE j \in S : \A m \in S : m <= j

\* C17: every line that, once stripped, begins with a well-formed
\* start --> end range opens a new cue with exactly those start and end
\* values: once the scanner is past the line, the open cue is the one of the
\* last such line.  The line itself, positioning directives included, is never
\* accumulated as text of a cue.
C17_RangeLineOpensCue ==
    /\ pc \in {"scan", "duration", "done"} =>
           LET passed == RangeLinesBefore(lines, i)
           IN  passed # {} =>
                   /\ current_start = Strip(lines[LastOfSet(passed)])[1]
                   /\ current_end = Strip(lines[LastOfSet(passed)])[5]
    /\ "-->" \notin Lexemes(current_text)
    /\ "-->" \notin Lexemes(plain_transcript)
    /\ \A k \in DOMAIN timestamped_segments :
           "-->" \notin Lexemes(timestamped_segments[k].text)


\* A timestamp-like line whose start or end timestamp is malformed.
MalformedRange(line) ==
    /\ Len(Strip(line)) >= 5
    /\ SubSeq(Strip(line), 2, 4) = <<" ", "-->", " ">>
    /\ ~(Strip(line)[1] \in Timestamps /\ Strip(line)[5] \in Timestamps)

\* The file with an ordinary text line in place of every such line.
AsOrdinaryText(ls) ==
    [k \in DOMAIN ls |-> IF MalformedRange(ls[k]) THEN <<"text">> ELSE ls[k]]

\* The words of the file's text lines that stand in a text.
Words(text) == SelectSeq(text, LAMBDA t : t \in {"Hello", "world"})

\* The cues of the segments that hold words of text lines: their boundaries
\* and those words.
CuesWithWords(segs) ==
    LET cue(seg) == [start_time |-> seg.start_time, end_time |-> seg.end_time,
                     words |-> Words(seg.text)]
    IN  SelectSeq([k \in DOMAIN segs |-> cue(segs[k])],
                  LAMBDA c : c.words # <<>>)

\* C18: a timestamp-like line with a malformed start or end timestamp neither
\* opens a cue nor ends the current one: the boundaries of the cues and the
\* cue each following text line goes to are those of the same file with an
\* ordinary text line in its place.
C18_MalformedRangeIsOrdinaryText ==
    Parsed =>
        CuesWithWords(result.timestamped_segments) =
            CuesWithWords(ParseAlone(AsOrdinaryText(lines)).timestamped_segments)


(***************************************************************************)
(* The text lines of a cue (checked under Spec).                           *)
(***************************************************************************)
\* The least member of a non-empty set of line numbers.
FirstOfSet(S) == CHOOSE j \in S : \A m \in S : j <= m

\* The line is blank once stripped.
IsBlank(line) == Strip(line) = <<>>

\* The line as it stands, unstripped, starts with a well-formed timestamp, a
\* space and the arrow.
StartsWithStartArrow(line) ==
    /\ Len(line) >= 3
    /\ line[1] \in Timestamps
    /\ line[2] = " "
    /\ line[3] = "-->"

\* The lines a to b, digit-only lines left out, each stripped and followed
\* by one space.
RECURSIVE JoinLines(_, _, _)
JoinLines(ls, a, b) ==
    IF a > b THEN <<>>
    ELSE (IF IsDigitLine(Strip(ls[a])) THEN <<>> ELSE Strip(ls[a]) \o <<" ">>)
             \o JoinLines(ls, a + 1, b)

\* The first line behind the k-th that is blank or a timestamp line, or the
\* line behind the last if there is none.
FirstBlankOrRange(ls, k) ==
    FirstOfSet({ j \in (k + 1)..(Len(ls) + 1) :
                   j <= Len(ls) => (IsBlank(ls[j]) \/ WellFormedRange(ls[j])) })

FirstNonBlank(ls, k) ==
    FirstOfSet({ j \in (k + 1)..(Len(ls) + 1) : j <= Len(ls) => ~IsBlank(ls[j]) })

\* The first line from the k-th on that is blank or starts, unstripped, with a
\* start timestamp and the arrow, or the line behind the last.
FirstBlankOrStartArrow(ls, k) ==
    FirstOfSet({ j \in k..(Len(ls) + 1) :
                   j <= Len(ls) => (IsBlank(ls[j]) \/ StartsWithStartArrow(ls[j])) })

C20_DifferentStartAndTextRetained ==
    (dpc = "once" /\ SortsLast(dedup_arg)) =>
        LET kept == deduplicate_segments(AllButLast(dedup_arg))
            last_segment == kept[Len(kept)]
            segment == dedup_arg[Len(dedup_arg)]
        IN  (/\ segment.start_time # last_segment.start_time
             /\ segment.text # last_segment.text) =>
                dedup_once = Append(kept, segment)

\* C20 witness: three cues with increasing starts, the second an extension of
\* the first, the third a strict prefix of the second and the same text as
\* the first, are all retained.
C20_Witness ==
    /\ dpc = "once"
    /\ Len(dedup_arg) = 3
    /\ dedup_arg[1].start_time = "00:00:00.000"
    /\ dedup_arg[2].start_time = "00:00:02.000"
    /\ dedup_arg[3].start_time = "00:00:04.000"
    /\ dedup_arg[1].text = <<"Hello">>
    /\ dedup_arg[2].text = <<"Hello", " ", "world">>
    /\ dedup_arg[3].text = <<"Hello">>
    /\ dedup_once = dedup_arg


(***************************************************************************)
(* The end of the input (checked under SpecAgain, whose files end with or  *)
(* without a blank line).                                                  *)
(***************************************************************************)
\* The sequence ends with the other.
EndsWith(s, tail) ==
    /\ Len(tail) <= Len(s)
    /\ SubSeq(s, Len(s) - Len(tail) + 1, Len(s)) = tail

\* C21: if the input ends while a cue with non-empty sanitized text is open,
\* that cue is emitted as the last segment before de-duplication: the
\* segments handed to de-duplication are the ones collected so far with the
\* cue's segment appended, and its text ends the plain transcript, whether
\* the input ends with a blank line or not.
C21_FinalCueEmitted ==
    [][(/\ pc = "scan"
        /\ i > Len(lines)
        /\ current_start \in Timestamps
        /\ clean_vtt_text(current_text) # <<>>) =>
           /\ pc' = "duration"
           /\ timestamped_segments' =
                  deduplicate_segments(
                      Append(timestamped_segments,
                             [start_time |-> current_start,
                              end_time |-> current_end,
                              text |-> clean_vtt_text(current_text)]))
           /\ EndsWith(plain_transcript', clean_vtt_text(current_text))]_vars

\* C21 witness: a file whose last cue is followed by a blank line and by
\* nothing else was parsed; the cue is in the result.
C21_Witness ==
    /\ Parsed
    /\ calls = 1
    /\ lines = << <<"00:00:00.000", " ", "-->", " ", "00:00:02.000">>,
                  <<"Hello">>,
                  <<>> >>
    /\ current_text = <<"Hello", " ">>
    /\ result.full_text = <<"Hello">>
    /\ result.timestamped_segments =
           <<[start_time |-> "00:00:00.000", end_time |-> "00:00:02.000",
              text |-> <<"Hello">>]>>


(***************************************************************************)
(* Termination of the scanner (checked under SpecFair).                    *)
(***************************************************************************)
\* C22: the line-scanning loop terminates on every finite input: every pass
\* of the outer loop moves the line index forward by at least one, so no line
\* is visited twice; the index never goes beyond the number of lines (here
\* lines are numbered from 1, so never beyond the line behind the last);
\* and a parser that has started scanning finishes.
C22_ScanTerminates ==
    /\ [](i \in 1..(Len(lines) + 1))
    /\ [][(pc = "scan" /\ i <= Len(lines)) =>
              (pc' = "scan" /\ lines' = lines /\ i' > i)]_vars
    /\ (pc = "scan") ~> (pc = "duration")

\* C22 witness: the scanner has gone through a file of the greatest length,
\* lines of every kind among them, and stands behind its last line.
C22_Witness ==
    /\ pc = "duration"
    /\ Len(lines) = MaxFair
    /\ i = MaxFair + 1
    /\ \E k \in DOMAIN lines : IsBlank(lines[k])
    /\ \E k \in DOMAIN lines : MalformedRange(lines[k])
    /\ \E k \in DOMAIN lines : WellFormedRange(lines[k])


(***************************************************************************)
(* The duration of a transcript whose cues overlap (checked under          *)
(* SpecOverlap).                                                           *)
(***************************************************************************)
\* A timestamp in milliseconds.
Millis(ts) ==
    LET t == TimeParts(ts)
    IN  t.hours * 3600000 + t.minutes * 60000 + t.seconds * 1000 + t.millis

\* C23: the duration is the total duration of the transcript: it is greater
\* than or equal to the end time of every retained segment.
C23_DurationCoversEverySegment ==
    Parsed =>
        \A k \in DOMAIN result.timestamped_segments :
            result.duration >= Millis(result.timestamped_segments[k].end_time)


(***************************************************************************)
(* Which of the segments with one start is retained (checked under         *)
(* SpecDedup).                                                             *)
(***************************************************************************)
\* The places of the input segments with the start.
WithStart(segs, start) == { j \in DOMAIN segs : segs[j].start_time = start }

\* C24 as stated: for every start of the input at most one segment with that
\* start is retained, and a retained segment is the earliest segment in
\* source order with its start.
C24_EarliestWithStartRetained ==
    dpc = "once" =>
        \A k \in DOMAIN dedup_once :
            LET start == dedup_once[k].start_time
            IN  /\ WithStart(dedup_once, start) = {k}
                /\ dedup_once[k] = dedup_arg[FirstOfSet(WithStart(dedup_arg, start))]

\* C24 amended: for every start of the input at most one segment with that
\* start is retained, and a retained segment is the earliest segment in
\* source order with its start whose text differs from the text of the
\* segment retained before it; the first retained segment is the earliest
\* segment with the smallest start.
C24_EarliestWithNewTextRetained ==
    dpc = "once" =>
        \A k \in DOMAIN dedup_once :
            LET start == dedup_once[k].start_time
                new == { j \in WithStart(dedup_arg, start) :
                           k = 1 \/ dedup_arg[j].text # dedup_once[k - 1].text }
            IN  /\ WithStart(dedup_once, start) = {k}
                /\ new # {}
                /\ dedup_once[k] = dedup_arg[FirstOfSet(new)]

\* C24 witness: of two segments with the same start behind a segment with
\* the text of the first of them, the second is the one retained.
C24_Witness ==
    /\ dpc = "once"
    /\ Len(dedup_arg) = 3
    /\ dedup_arg[1].start_time = "00:00:00.000"
    /\ dedup_arg[2].start_time = "00:00:02.000"
    /\ dedup_arg[3].start_time = "00:00:02.000"
    /\ dedup_arg[1].text = <<"Hello">>
    /\ dedup_arg[2].text = <<"Hello">>
    /\ dedup_arg[3].text = <<"Hello", " ", "world">>
    /\ dedup_once = <<dedup_arg[1], dedup_arg[3]>>


\* C25: for every input, full_text is empty if and only if the list of
\* retained segments is empty: a transcript has neither text without segments
\* nor segments without text (checked under SpecMarkup).
C25_TextIffSegments ==
    (pc = "done" /\ result.ret = "dict") =>
        (result.full_text = <<>> <=> result.timestamped_segments = <<>>)

\* C25 witness: a file with two cues, one whose text is only tags and one
\* with no text line, was parsed into no segment and no text.
C25_Witness ==
    /\ Parsed
    /\ lines = << <<"00:00:00.000", " ", "-->", " ", "00:00:02.000">>,
                  <<"<", "c", ">", "<", "/", "c", ">">>,
                  <<"00:00:00.000", " ", "-->", " ", "00:00:02.000">> >>
    /\ result.full_text = <<>>
    /\ result.timestamped_segments = <<>>


(***************************************************************************)
(* The download attempts of fetch_youtube (checked under SpecOverlap).     *)
(***************************************************************************)
\* C26: in fetch_youtube the download attempts run in the fixed order
\* android, web, ios: a later client is tried only after every earlier
\* attempt ended with a non-zero exit code, at most three attempts are made,
\* the placeholder of the failure branch is returned only after all three
\* failed, and once an attempt has succeeded no further attempt is made.
C26_ClientsTriedInOrder ==
    script = "fetch_youtube" =>
        /\ Len(attempts) <= 3
        /\ \A k \in DOMAIN attempts :
               /\ attempts[k].client = <<"android", "web", "ios">>[k]
               /\ k < Len(attempts) => attempts[k].returncode # 0
        /\ branch = "download_failed" =>
               /\ Len(attempts) = 3
               /\ \A k \in 1..3 : attempts[k].returncode # 0
               /\ result.full_text = NoTranscriptMessage
        /\ (attempts # <<>> /\ attempts[Len(attempts)].returncode = 0) =>
               pc # "download"

\* C26 witness: android and web failed, ios succeeded and the subtitle file
\* it left was parsed.
C26_Witness ==
    /\ script = "fetch_youtube"
    /\ Parsed
    /\ attempts = <<[client |-> "android", returncode |-> 1],
                    [client |-> "web", returncode |-> 1],
                    [client |-> "ios", returncode |-> 0]>>


(***************************************************************************)
(* store_video_data as a transaction (checked under SpecMain).             *)
(***************************************************************************)
RECURSIVE ApplyAll(_, _, _)
ApplyAll(sts, video_id, db) ==
    IF sts = <<>> THEN db
    ELSE ApplyAll(Tail(sts), video_id, Apply(Head(sts), video_id, db))

\* The rows of the database if every statement of the running call of
\* store_video_data took effect on the rows present at its entry.
AllWritten ==
    ApplyAll(Statements(script, videos_to_process[vi], metadata,
                        transcript_data),
             videos_to_process[vi].video_id, db_before)

\* C27: store_video_data is all-or-nothing.  While a call runs, none of its
\* rows is in the database file.  When it returns False (a statement or the
\* commit failed) the file holds exactly the rows it held when the call was
\* entered and the connection has no uncommitted row left; when it returns
\* True the file holds the rows of the entry with every statement of the
\* call applied, all of them committed in the one step of conn.commit().
C27_StoreAllOrNothing ==
    /\ spc \in {"try", "except"} => committed = db_before
    /\ spc = "return" =>
        /\ working = committed
        /\ IF success THEN committed = AllWritten ELSE committed = db_before

\* A call that had written its content, youtube and transcript rows failed on
\* a segment row and returned False.
C27_Witness ==
    /\ spc = "return"
    /\ ~success
    /\ pending # <<>>
    /\ Head(pending).table = "transcript_segments"
    /\ AllWritten # db_before


(***************************************************************************)
(* The counters of the processing loop (checked under SpecMain).           *)
(***************************************************************************)
Counted == added_count + updated_count + error_count

\* C28: after the processing loop of either script, added_count +
\* updated_count + error_count is the number of videos iterated, and so it is
\* at every turn of the loop: the sum is the number of videos begun once the
\* video at hand has been counted, and one less while it is being processed,
\* whether its fetches raised, its store failed or it was stored.
C28_EveryVideoCountedOnce ==
    /\ mpc = "done" => Counted = Len(videos_to_process)
    /\ mpc = "loop" => Counted = vi
    /\ mpc \in {"metadata", "transcript", "store"} => Counted = vi - 1

\* The loop has ended on two videos: one was stored, the other was not.
C28_Witness ==
    /\ mpc = "done"
    /\ Len(videos_to_process) = 2
    /\ added_count + updated_count = 1
    /\ error_count = 1


\* C29: in both scripts a video is counted as scraped only if its data was
\* stored: at the end of the processing loop scraped_count is at most
\* added_count + updated_count.
C29_ScrapedOnlyIfStored ==
    mpc = "done" => scraped_count <= added_count + updated_count


(***************************************************************************)
(* The retry of a rate-limited request (checked under SpecApi).            *)
(***************************************************************************)
IsList(v) == v \in Seq([video_id : STRING, url : UrlPool])

\* C30: fetch_youtube_videos issues the request again each time the API
\* answers 429, and never returns while the latest response is 429; on the
\* first response other than 429 it returns a list and issues no further
\* request, so a call that receives such a response returns.
C30_RetriesUntilAnswered ==
    /\ \A n \in 1..RecursionLimit :
          (apc = "response" /\ response.status_code = 429 /\ requests = n)
             ~> (requests = n + 1)
    /\ [](apc = "done" => response.status_code # 429)
    /\ [][(apc = "response" /\ response.status_code # 429)
             => (apc' = "done" /\ requests' = requests)]_vars
    /\ [](apc = "done" => IsList(api_result))
    /\ (apc = "response" /\ response.status_code # 429) ~> (apc = "done")

====
